---- MODULE Spec2Model ----
(***************************************************************************)
(* The CacheGen encoder of lmcache/storage_backend/serde/cachegen_encoder.py *)
(* as a state machine: every encode call is a process that walks through    *)
(* quantize, compute_cdf(K), compute_cdf(V), the (slab, token) coding loop  *)
(* and the assembly of the CacheGenEncoderOutput.                           *)
(*                                                                         *)
(* Tensors are sequences (1-based; the code's layer / token / channel /    *)
(* symbol index n is position n+1).  A float32 value is the exact rational *)
(* [num, den] it stands for: with the value sets used here every product   *)
(* the code rounds is either exact in float32 or further than 1/6 from a   *)
(* rounding boundary, so torch.round (half to even) sees the same side.    *)
(***************************************************************************)
EXTENDS Integers, Sequences, FiniteSets, TLC

VARIABLES
    nan_int8,      \* what this build's float -> int8 conversion yields for NaN
    procs,         \* the encode calls in flight
    kv,            \* kv[p]: the input tensor [L, 2, T, C] (heads already merged)
    config,        \* config[p]: the CacheGenConfig of the call
    pc,            \* pc[p]: the call's position
    enc,           \* enc[o]: the fields of CacheGenEncoderImpl object o
    cdf,           \* cdf[p]: the floating CDF (cdf_k, then cat(cdf_k, cdf_v))
    encode_input,  \* encode_input[p]: the stacked symbols [2L, T, C]
    cdf_int,       \* cdf_int[p]: the coder's integer CDF
    l,             \* l[p], i[p]: the coding loop's slab and token (0-based)
    i,
    current_index, \* current_index[p]
    start_indices, \* start_indices[p]
    bytestreams,   \* bytestreams[p]: the blobs emitted so far
    output         \* output[p]: the returned CacheGenEncoderOutput, or NoOutput

vars == <<nan_int8, procs, kv, config, pc, enc, cdf, encode_input, cdf_int,
          l, i, current_index, start_indices, bytestreams, output>>

---------------------------------------------------------------------------
(* Bounds of the model *)
MaxL == 2
MaxT == 2
MaxC == 2
MaxElems == 2
ConcMaxT == 2

(* Program constants *)
value_range == 32
PRECISION == 16

Pow2(n) == 2 ^ n

\* The values a KV element takes in the model.
Vals == {-2, 0, 1}

\* float -> int8 of NaN is undefined in torch: 0 where the conversion truncates
\* through a wider integer, -128 where it saturates.  One build gives one outcome.
NanCastOutcomes == {-128, 0}

NoOutput == [raised |-> FALSE, returned |-> FALSE]
Raised == [raised |-> TRUE, returned |-> FALSE]

---------------------------------------------------------------------------
(* Arithmetic helpers *)

Abs(x) == IF x < 0 THEN -x ELSE x

Rat(n, d) == [num |-> n, den |-> d]

\* torch.round: round half to even, of the rational n / d with d > 0
RoundHalfEven(n, d) ==
    LET q == n \div d
        r == n - q * d
    IN  IF 2 * r < d THEN q
        ELSE IF 2 * r > d THEN q + 1
        ELSE IF q % 2 = 0 THEN q ELSE q + 1

\* integer arithmetic of an int8 / int16 tensor wraps, and so does the cast of an
\* integral float beyond the int16 range (the docstring of
\* _convert_to_int_and_normalize counts on values up to 2**16 - 1 fitting)
Wrap8(x) == ((x + 128) % 256) - 128
Wrap16(x) == ((x + 32768) % 65536) - 32768
\* the bit pattern of an int16 read as unsigned, as the coder reads it
U16(x) == x % 65536

RECURSIVE SeqOf(_, _)
\* the sequence <<F(1), ..., F(n)>>, built element by element
SeqOf(F(_), n) == IF n = 0 THEN <<>> ELSE Append(SeqOf(F, n - 1), F(n))

RECURSIVE SeqMax(_)
SeqMax(s) == IF Len(s) = 1 THEN s[1]
             ELSE LET m == SeqMax(Tail(s)) IN IF s[1] > m THEN s[1] ELSE m

RECURSIVE Concat(_)
\* b"".join(list)
Concat(ss) == IF ss = <<>> THEN <<>> ELSE Head(ss) \o Concat(Tail(ss))

---------------------------------------------------------------------------
(* torch_quant, per row of the layer's [T, C] tensor *)

\* max1 = torch.amax(torch.abs(qA), dim=-1)
RowMax(row) == SeqMax(SeqOf(LAMBDA c : Abs(row[c]), Len(row)))

\* xq = torch.round(qA * (C / max1)).to(torch.int8).  With max1 = 0 the factor
\* is inf or NaN and every product of the (all-zero) row is NaN.
QuantRow(bins, row) ==
    LET MAX == bins \div 2 - 1
        max1 == RowMax(row)
    IN  SeqOf(LAMBDA c : IF max1 = 0 THEN nan_int8
                         ELSE Wrap8(RoundHalfEven(row[c] * MAX, max1)),
              Len(row))

torch_quant(bins, qA) ==
    [xq |-> SeqOf(LAMBDA t : QuantRow(bins, qA[t]), Len(qA)),
     max1 |-> SeqOf(LAMBDA t : RowMax(qA[t]), Len(qA))]

\* _split_kv: unbind dim 1 of [L, 2, T, C]
SplitKV(tensor, b) == SeqOf(LAMBDA ly : tensor[ly][b], Len(tensor))

---------------------------------------------------------------------------
(* CacheGenEncoderImpl.quantize *)

KeyBins(cfg, layer) ==
    IF layer < cfg.key_first_layers THEN cfg.key_first_bins
    ELSE IF layer < cfg.key_second_layers THEN cfg.key_second_bins
    ELSE cfg.key_third_bins

ValueBins(cfg, layer) ==
    IF layer < cfg.value_first_layers THEN cfg.value_first_bins
    ELSE cfg.value_second_bins

\* tmp[0] + bins // 2 - 1 on an int8 tensor
ShiftSym(xq, bins) ==
    SeqOf(LAMBDA t :
              SeqOf(LAMBDA c : Wrap8(Wrap8(xq[t][c] + bins \div 2) - 1), Len(xq[t])),
          Len(xq))

QuantizedKey(fp_k, cfg) ==
    SeqOf(LAMBDA ly : ShiftSym(torch_quant(KeyBins(cfg, ly - 1), fp_k[ly]).xq,
                               KeyBins(cfg, ly - 1)),
          Len(fp_k))

MaxTensorsKey(fp_k, cfg) ==
    SeqOf(LAMBDA ly : torch_quant(KeyBins(cfg, ly - 1), fp_k[ly]).max1, Len(fp_k))

QuantizedValue(fp_v, cfg) ==
    SeqOf(LAMBDA ly : ShiftSym(torch_quant(ValueBins(cfg, ly - 1), fp_v[ly]).xq,
                               ValueBins(cfg, ly - 1)),
          Len(fp_v))

MaxTensorsValue(fp_v, cfg) ==
    SeqOf(LAMBDA ly : torch_quant(ValueBins(cfg, ly - 1), fp_v[ly]).max1, Len(fp_v))

---------------------------------------------------------------------------
(* CacheGenEncoderImpl.compute_cdf *)

\* one_hot raises on a class value below 0 or not below num_classes
OneHotRaises(X, max_val) ==
    \E ly \in 1..Len(X) : \E t \in 1..Len(X[ly]) : \E c \in 1..Len(X[ly][t]) :
        X[ly][t][c] < 0 \/ X[ly][t][c] > max_val

\* counts = one_hot.sum(dim=1): per channel, the tokens holding each class
Counts(x, max_val) ==
    SeqOf(LAMBDA c :
              SeqOf(LAMBDA a : Cardinality({t \in 1..Len(x) : x[t][c] = a - 1}),
                    max_val + 1),
          Len(x[1]))

RECURSIVE CumSum(_, _)
\* torch.cumsum along the class axis: the sum of the first n entries
CumSum(row, n) == IF n = 0 THEN 0 ELSE CumSum(row, n - 1) + row[n]

\* .roll(1) without dims: the tensor is flattened, shifted by one and reshaped
Roll1(m) ==
    LET rows == Len(m)
        cols == Len(m[1])
        n == rows * cols
        flat(k) == m[((k - 1) \div cols) + 1][((k - 1) % cols) + 1]
    IN  SeqOf(LAMBDA c :
                  SeqOf(LAMBDA a : flat((((c - 1) * cols + a - 2) % n) + 1), cols),
              rows)

\* ZeroFirstColumn without the assignment: column 0 keeps what the roll put there
KeepFirstColumn(m) == m

\* ret[:, 0] = 0
ZeroFirstColumn(m) ==
    SeqOf(LAMBDA c : SeqOf(LAMBDA a : IF a = 1 THEN 0 ELSE m[c][a], Len(m[c])), Len(m))

\* process_batch on one layer x of shape [T, C] (the permute is folded into the
\* indexing): the numerators over ntokens, then the division by ntokens
process_batch(x, max_val) ==
    LET ntokens == Len(x)
        counts == Counts(x, max_val)
        cum == SeqOf(LAMBDA c : SeqOf(LAMBDA a : CumSum(counts[c], a), max_val + 1),
                     Len(counts))
        ret == ZeroFirstColumn(Roll1(cum))
    IN  SeqOf(LAMBDA c : SeqOf(LAMBDA a : Rat(ret[c][a], ntokens), max_val + 1),
              Len(ret))

\* process_layers and the final reshape to [L, C, value_range + 1]
compute_cdf(X) == SeqOf(LAMBDA ly : process_batch(X[ly], value_range), Len(X))

---------------------------------------------------------------------------
(* The two CDF normalisations *)

\* _convert_to_int_and_normalize(cdf_float, needs_normalization), one row
ConvertRow(row, needs_normalization) ==
    LET Lp == Len(row)
        factor == Pow2(PRECISION)
        new_max_value == IF needs_normalization THEN factor - (Lp - 1) ELSE factor
        cast(a) == Wrap16(RoundHalfEven(row[a].num * new_max_value, row[a].den))
    IN  SeqOf(LAMBDA a : IF needs_normalization THEN Wrap16(cast(a) + (a - 1))
                         ELSE cast(a),
              Lp)

_convert_to_int_and_normalize(cdf_float, needs_normalization) ==
    SeqOf(LAMBDA s :
              SeqOf(LAMBDA c : ConvertRow(cdf_float[s][c], needs_normalization),
                    Len(cdf_float[s])),
          Len(cdf_float))

\* RenormRow scaling by 2^precision instead of 2^precision - (Lp - 1)
RenormRowFullScale(row, precision) ==
    SeqOf(LAMBDA a : Wrap16(Wrap16(RoundHalfEven(row[a].num * Pow2(precision),
                                                 row[a].den)) + (a - 1)),
          Len(row))

\* _renorm_cast_cdf_(cdf, precision), one row
RenormRow(row, precision) ==
    LET Lp == Len(row)
        finals == 1
        f == Pow2(precision)
    IN  SeqOf(LAMBDA a : Wrap16(Wrap16(RoundHalfEven(row[a].num * (f - (Lp - 1)),
                                                     row[a].den * finals)) + (a - 1)),
              Lp)

_renorm_cast_cdf_(cdf_float, precision) ==
    SeqOf(LAMBDA s :
              SeqOf(LAMBDA c : RenormRow(cdf_float[s][c], precision), Len(cdf_float[s])),
          Len(cdf_float))

---------------------------------------------------------------------------
(* The arithmetic coder.  torchac is an external library: the blob is      *)
(* modelled by the coding intervals [c_low, c_high) the coder narrows by,  *)
(* one unit per symbol, leaving out a symbol whose interval is more than   *)
(* half the range (it costs less than one bit): a variable-length,         *)
(* deterministic function of the CDF rows and the symbols it is given.     *)

CodeUnit(cdfrow, sym) ==
    LET Lp == Len(cdfrow)
        top == Pow2(PRECISION)
        lo == U16(cdfrow[sym + 1])
        hi == IF sym + 2 > Lp THEN top ELSE U16(cdfrow[sym + 2])
        width == ((hi - lo - 1) % top) + 1
    IN  IF 2 * width > top THEN <<>> ELSE << <<lo, hi>> >>

RECURSIVE EncodeFrom(_, _, _)
EncodeFrom(cdfslab, symrow, c) ==
    IF c > Len(symrow) THEN <<>>
    ELSE CodeUnit(cdfslab[c], symrow[c]) \o EncodeFrom(cdfslab, symrow, c + 1)

\* torchac.encode_int16_normalized_cdf(cdf_int[l:l+1], encode_input[l:l+1, i])
encode_int16_normalized_cdf(cdfslab, symrow) == EncodeFrom(cdfslab, symrow, 1)

---------------------------------------------------------------------------
(* The pure result of one encode_function call, used to state what a call  *)
(* returns when it runs alone.                                             *)

\* the blobs of the double loop over (slab, token), in emission order
SerialBlobs(cdfint, input, T) ==
    SeqOf(LAMBDA n :
              encode_int16_normalized_cdf(cdfint[((n - 1) \div T) + 1],
                                          input[((n - 1) \div T) + 1][((n - 1) % T) + 1]),
          Len(input) * T)

RECURSIVE SumLen(_, _)
\* the total length of the first n blobs
SumLen(blobs, n) == IF n = 0 THEN 0 ELSE SumLen(blobs, n - 1) + Len(blobs[n])

\* concat_max: the per-layer max tensors stacked in layer order
concat_max(max1) == SeqOf(LAMBDA ly : max1[ly], Len(max1))

EncodeAlone(tensor, cfg) ==
    LET fp_k == SplitKV(tensor, 1)
        fp_v == SplitKV(tensor, 2)
        qk == QuantizedKey(fp_k, cfg)
        qv == QuantizedValue(fp_v, cfg)
        T == Len(tensor[1][1])
        cdff == compute_cdf(qk) \o compute_cdf(qv)
        blobs == SerialBlobs(_convert_to_int_and_normalize(cdff, TRUE), qk \o qv, T)
    IN  IF OneHotRaises(qk, value_range) \/ OneHotRaises(qv, value_range)
        THEN Raised
        ELSE [raised |-> FALSE, returned |-> TRUE,
              bytestream |-> Concat(blobs),
              start_indices |-> SeqOf(LAMBDA n : SumLen(blobs, n - 1), Len(blobs)),
              cdf |-> _renorm_cast_cdf_(cdff, 16),
              max_tensors_key |-> concat_max(MaxTensorsKey(fp_k, cfg)),
              max_tensors_value |-> concat_max(MaxTensorsValue(fp_v, cfg))]

---------------------------------------------------------------------------
(* The steps of encode_function, for call p *)

\* EncoderOf with one encoder object shared by all calls
SharedEncoder(p) == 1

\* encoder = CacheGenEncoderImpl(...): every call constructs an object of its own
EncoderOf(p) == p

NoEncoder ==
    [fp_k |-> <<>>, fp_v |-> <<>>, config |-> <<>>,
     quantized_key |-> <<>>, max_tensors_key |-> <<>>,
     quantized_value |-> <<>>, max_tensors_value |-> <<>>]

\* the chunk_size the facade passes: ntokens = tensor.shape[2]
ChunkSize(p) == Len(kv[p][1][1])

\* NextIndex counting blobs instead of bytes
NextIndexPerBlob(cur, length) == cur + 1

\* current_index += length
NextIndex(cur, length) == cur + length

\* CatInput with the value slabs first
CatInputValueFirst(input_key, input_value) == input_value \o input_key

\* torch.cat((encode_input_key, encode_input_value), dim=0)
CatInput(input_key, input_value) == input_key \o input_value

\* torch.cat((cdf_k, cdf_v), dim=0)
CatCdf(cdf_k, cdf_v) == cdf_k \o cdf_v

Construct(p) ==
    /\ pc[p] = "start"
    /\ enc' = [enc EXCEPT ![EncoderOf(p)] =
                  [fp_k |-> SplitKV(kv[p], 1), fp_v |-> SplitKV(kv[p], 2),
                   config |-> config[p],
                   quantized_key |-> <<>>, max_tensors_key |-> <<>>,
                   quantized_value |-> <<>>, max_tensors_value |-> <<>>]]
    /\ pc' = [pc EXCEPT ![p] = "constructed"]
    /\ UNCHANGED <<nan_int8, procs, kv, config, cdf, encode_input, cdf_int,
                   l, i, current_index, start_indices, bytestreams, output>>

Quantize(p) ==
    /\ pc[p] = "constructed"
    /\ LET o == EncoderOf(p)
           e == enc[o]
       IN  enc' = [enc EXCEPT ![o] =
                      [e EXCEPT !.quantized_key = QuantizedKey(e.fp_k, e.config),
                                !.max_tensors_key = MaxTensorsKey(e.fp_k, e.config),
                                !.quantized_value = QuantizedValue(e.fp_v, e.config),
                                !.max_tensors_value = MaxTensorsValue(e.fp_v, e.config)]]
    /\ pc' = [pc EXCEPT ![p] = "quantized"]
    /\ UNCHANGED <<nan_int8, procs, kv, config, cdf, encode_input, cdf_int,
                   l, i, current_index, start_indices, bytestreams, output>>

\* cdf_k = encoder.compute_cdf(is_key=True); encode_input_key = torch.stack(...)
ComputeCdfK(p) ==
    /\ pc[p] = "quantized"
    /\ LET e == enc[EncoderOf(p)]
       IN  IF OneHotRaises(e.quantized_key, value_range)
           THEN /\ pc' = [pc EXCEPT ![p] = "raised"]
                /\ output' = [output EXCEPT ![p] = Raised]
                /\ UNCHANGED <<cdf, encode_input>>
           ELSE /\ pc' = [pc EXCEPT ![p] = "cdf_k"]
                /\ cdf' = [cdf EXCEPT ![p] = compute_cdf(e.quantized_key)]
                /\ encode_input' = [encode_input EXCEPT ![p] = e.quantized_key]
                /\ UNCHANGED output
    /\ UNCHANGED <<nan_int8, procs, kv, config, enc, cdf_int,
                   l, i, current_index, start_indices, bytestreams>>

\* cdf_v, encode_input_value, the two cats, the loop's initial values and
\* cdf_int = _convert_to_int_and_normalize(cdf, True)
ComputeCdfV(p) ==
    /\ pc[p] = "cdf_k"
    /\ LET e == enc[EncoderOf(p)]
       IN  IF OneHotRaises(e.quantized_value, value_range)
           THEN /\ pc' = [pc EXCEPT ![p] = "raised"]
                /\ output' = [output EXCEPT ![p] = Raised]
                /\ UNCHANGED <<cdf, encode_input, cdf_int>>
           ELSE /\ pc' = [pc EXCEPT ![p] = "coding"]
                /\ cdf' = [cdf EXCEPT ![p] = CatCdf(@, compute_cdf(e.quantized_value))]
                /\ encode_input' = [encode_input EXCEPT ![p] =
                                       CatInput(encode_input[p], e.quantized_value)]
                /\ cdf_int' = [cdf_int EXCEPT ![p] =
                                  _convert_to_int_and_normalize(cdf'[p], TRUE)]
                /\ UNCHANGED output
    /\ UNCHANGED <<nan_int8, procs, kv, config, enc,
                   l, i, current_index, start_indices, bytestreams>>

\* one iteration of  for l in range(cdf.shape[0]): for i in range(chunk_size)
EncodeStep(p) ==
    /\ pc[p] = "coding"
    /\ l[p] < Len(cdf[p])
    /\ LET bits == encode_int16_normalized_cdf(cdf_int[p][l[p] + 1],
                                               encode_input[p][l[p] + 1][i[p] + 1])
       IN  /\ bytestreams' = [bytestreams EXCEPT ![p] = Append(@, bits)]
           /\ start_indices' = [start_indices EXCEPT ![p] = Append(@, current_index[p])]
           /\ current_index' = [current_index EXCEPT ![p] = NextIndex(@, Len(bits))]
    /\ IF i[p] + 1 < ChunkSize(p)
       THEN /\ i' = [i EXCEPT ![p] = @ + 1]
            /\ UNCHANGED l
       ELSE /\ i' = [i EXCEPT ![p] = 0]
            /\ l' = [l EXCEPT ![p] = @ + 1]
    /\ UNCHANGED <<nan_int8, procs, kv, config, pc, enc, cdf, encode_input,
                   cdf_int, output>>

\* output = CacheGenEncoderOutput(...); return output
Assemble(p) ==
    /\ pc[p] = "coding"
    /\ l[p] = Len(cdf[p])
    /\ LET e == enc[EncoderOf(p)]
       IN  output' = [output EXCEPT ![p] =
                         [raised |-> FALSE, returned |-> TRUE,
                          bytestream |-> Concat(bytestreams[p]),
                          start_indices |-> start_indices[p],
                          cdf |-> _renorm_cast_cdf_(cdf[p], 16),
                          max_tensors_key |-> concat_max(e.max_tensors_key),
                          max_tensors_value |-> concat_max(e.max_tensors_value)]]
    /\ pc' = [pc EXCEPT ![p] = "done"]
    /\ UNCHANGED <<nan_int8, procs, kv, config, enc, cdf, encode_input, cdf_int,
                   l, i, current_index, start_indices, bytestreams>>

DoConstruct == \E p \in procs : Construct(p)
DoQuantize == \E p \in procs : Quantize(p)
DoComputeCdfK == \E p \in procs : ComputeCdfK(p)
DoComputeCdfV == \E p \in procs : ComputeCdfV(p)
DoEncodeStep == \E p \in procs : EncodeStep(p)
DoAssemble == \E p \in procs : Assemble(p)

Next ==
    \/ DoConstruct
    \/ DoQuantize
    \/ DoComputeCdfK
    \/ DoComputeCdfV
    \/ DoEncodeStep
    \/ DoAssemble

---------------------------------------------------------------------------
(* Inputs *)

\* bins 8 then 4 over the key layers, 4 then 8 over the value layers
CfgBands ==
    [key_first_layers |-> 1, key_first_bins |-> 8,
     key_second_layers |-> 2, key_second_bins |-> 4, key_third_bins |-> 6,
     value_first_layers |-> 1, value_first_bins |-> 4, value_second_bins |-> 8]

\* an empty first band: the second and third key bands are the ones in use
CfgLate ==
    [key_first_layers |-> 0, key_first_bins |-> 4,
     key_second_layers |-> 1, key_second_bins |-> 8, key_third_bins |-> 6,
     value_first_layers |-> 0, value_first_bins |-> 8, value_second_bins |-> 4]

\* a bin count above the alphabet
CfgOver ==
    [key_first_layers |-> 1, key_first_bins |-> 34,
     key_second_layers |-> 2, key_second_bins |-> 8, key_third_bins |-> 8,
     value_first_layers |-> 1, value_first_bins |-> 8, value_second_bins |-> 8]

\* a non-positive bin count
CfgZero ==
    [key_first_layers |-> 1, key_first_bins |-> 8,
     key_second_layers |-> 2, key_second_bins |-> 8, key_third_bins |-> 8,
     value_first_layers |-> 1, value_first_bins |-> 0, value_second_bins |-> 8]

Configs == {CfgBands, CfgLate, CfgOver, CfgZero}

BinsOf(cfg) ==
    {cfg.key_first_bins, cfg.key_second_bins, cfg.key_third_bins,
     cfg.value_first_bins, cfg.value_second_bins}

\* the spec's rule for a bin count: a positive integer within the alphabet cap
ValidConfig(cfg) == \A b \in BinsOf(cfg) : b > 0 /\ b <= value_range + 1

Shapes ==
    {s \in (1..MaxL) \X (1..MaxT) \X (1..MaxC) : s[1] * s[2] * s[3] <= MaxElems}

KVs(L, T, C) == [1..L -> [1..2 -> [1..T -> [1..C -> Vals]]]]

InitCall(ps, nans) ==
    /\ procs = ps
    /\ nan_int8 \in nans
    /\ pc = [p \in ps |-> "start"]
    /\ enc = [p \in ps |-> NoEncoder]
    /\ cdf = [p \in ps |-> <<>>]
    /\ encode_input = [p \in ps |-> <<>>]
    /\ cdf_int = [p \in ps |-> <<>>]
    /\ l = [p \in ps |-> 0]
    /\ i = [p \in ps |-> 0]
    /\ current_index = [p \in ps |-> 0]
    /\ start_indices = [p \in ps |-> <<>>]
    /\ bytestreams = [p \in ps |-> <<>>]
    /\ output = [p \in ps |-> NoOutput]

\* one encode call on any input of the bounded shapes
Init ==
    /\ InitCall({1}, NanCastOutcomes)
    /\ \E s \in Shapes : kv \in [{1} -> KVs(s[1], s[2], s[3])]
    /\ config \in [{1} -> Configs]

Spec == Init /\ [][Next]_vars

\* two encode calls in flight at once
ConcVals == {-2, 1}

\* one layer, one channel, up to ConcMaxT tokens, both banks holding the same rows
ConcRows == UNION {[1..T -> [1..1 -> ConcVals]] : T \in 1..ConcMaxT}

ConcKVs == {<< <<rows, rows>> >> : rows \in ConcRows}

InitConc ==
    /\ InitCall({1, 2}, {0})
    /\ kv \in [{1, 2} -> ConcKVs]
    /\ config \in [{1, 2} -> {CfgBands}]

SpecConc == InitConc /\ [][Next]_vars

---------------------------------------------------------------------------
(* What the properties read *)

NumLayers(p) == Len(kv[p])
NumTokens(p) == Len(kv[p][1][1])
NumChannels(p) == Len(kv[p][1][1][1])
Returned(p) == pc[p] = "done"

\* the symbols of slab s (1..2L), straight from the input: key layers first
SlabSymbols(p, s) ==
    IF s <= NumLayers(p)
    THEN QuantizedKey(SplitKV(kv[p], 1), config[p])[s]
    ELSE QuantizedValue(SplitKV(kv[p], 2), config[p])[s - NumLayers(p)]

\* the bytes of blob n of a returned output, cut out by the offset table
BlobOf(out, n) ==
    SubSeq(out.bytestream, out.start_indices[n] + 1,
           IF n < Len(out.start_indices) THEN out.start_indices[n + 1]
           ELSE Len(out.bytestream))

IsZeroRow(row) == \A c \in 1..Len(row) : row[c] = 0

---------------------------------------------------------------------------
(* C1: the offsets of a returned output are the exclusive prefix sums of   *)
(* the blob lengths in emission order: 2*L*T entries, the first 0,         *)
(* non-decreasing, within the bytestream, and blob n is exactly the bytes  *)
(* from its offset to the next one (the last to the end).                  *)
C1_OffsetsArePrefixSums ==
    \A p \in procs : Returned(p) =>
        LET out == output[p]
            si == out.start_indices
            N == 2 * NumLayers(p) * NumTokens(p)
        IN  /\ Len(si) = N
            /\ Len(bytestreams[p]) = N
            /\ si[1] = 0
            /\ \A n \in 1..(N - 1) : si[n] <= si[n + 1]
            /\ \A n \in 1..N : 0 <= si[n] /\ si[n] <= Len(out.bytestream)
            /\ \A n \in 1..N : si[n] = SumLen(bytestreams[p], n - 1)
            /\ \A n \in 1..N : BlobOf(out, n) = bytestreams[p][n]

\* a returned output with blobs of different lengths and a non-zero offset
C1_Witness ==
    \E p \in procs :
        /\ Returned(p)
        /\ \E n \in 1..Len(bytestreams[p]) : output[p].start_indices[n] > 0
        /\ \E m, n \in 1..Len(bytestreams[p]) :
               Len(bytestreams[p][m]) # Len(bytestreams[p][n])
        /\ \E n \in 2..Len(bytestreams[p]) :
               output[p].start_indices[n] = output[p].start_indices[n - 1]

(* C2: blob s*T + t of a returned output is the coder's output for the     *)
(* symbol row of slab s, token t against the integer CDF of slab s, the L  *)
(* key layers being slabs 0..L-1 and the L value layers slabs L..2L-1; the *)
(* stored scales are those of the same (layer, token) rows.                *)
C2_BlobOrder ==
    \A p \in procs : Returned(p) =>
        LET out == output[p]
            L == NumLayers(p)
            T == NumTokens(p)
            cdff == compute_cdf(QuantizedKey(SplitKV(kv[p], 1), config[p]))
                    \o compute_cdf(QuantizedValue(SplitKV(kv[p], 2), config[p]))
            ci == _convert_to_int_and_normalize(cdff, TRUE)
        IN  /\ \A s \in 0..(2 * L - 1) : \A t \in 0..(T - 1) :
                   BlobOf(out, s * T + t + 1) =
                       encode_int16_normalized_cdf(ci[s + 1], SlabSymbols(p, s + 1)[t + 1])
            /\ \A ly \in 1..L : \A t \in 1..T :
                   /\ out.max_tensors_key[ly][t] = RowMax(kv[p][ly][1][t])
                   /\ out.max_tensors_value[ly][t] = RowMax(kv[p][ly][2][t])

\* a returned output whose key and value slabs, or whose tokens, give
\* different blobs
C2_Witness ==
    \E p \in procs :
        /\ Returned(p)
        /\ \E m, n \in 1..Len(bytestreams[p]) :
               /\ m < n
               /\ bytestreams[p][m] # bytestreams[p][n]
               /\ bytestreams[p][m] # <<>>
               /\ bytestreams[p][n] # <<>>
        /\ \E ly \in 1..NumLayers(p) : \E t \in 1..NumTokens(p) :
               output[p].max_tensors_key[ly][t] # output[p].max_tensors_value[ly][t]

C4_IntCdfStrictlyIncreasing ==
    \A p \in procs : (pc[p] \in {"coding", "done"} /\ ValidConfig(config[p])) =>
        \A s \in 1..Len(cdf_int[p]) : \A c \in 1..Len(cdf_int[p][s]) :
            LET row == cdf_int[p][s][c]
                fl == cdf[p][s][c]
                new_max == Pow2(PRECISION) - value_range
            IN  /\ U16(row[1]) = 0
                /\ \A a \in 1..(Len(row) - 1) : U16(row[a]) < U16(row[a + 1])
                /\ \A a \in 1..Len(row) :
                       /\ U16(row[a]) = RoundHalfEven(fl[a].num * new_max, fl[a].den) + (a - 1)
                       /\ RoundHalfEven(fl[a].num * new_max, fl[a].den) + (a - 1)
                              <= Pow2(PRECISION) - 1

(* C5: every row of the floating CDF has 33 entries, starts at 0, is       *)
(* non-decreasing, lies in [0, 1], and its entry a is the fraction of the  *)
(* tokens of the same layer and channel whose symbol is below a.           *)
C5_CdfIsFractionBelow ==
    \A p \in procs : pc[p] \in {"cdf_k", "coding", "done"} =>
        \A s \in 1..Len(cdf[p]) : \A c \in 1..NumChannels(p) :
            LET row == cdf[p][s][c]
                e == enc[EncoderOf(p)]
                x == IF s <= NumLayers(p) THEN e.quantized_key[s]
                     ELSE e.quantized_value[s - NumLayers(p)]
            IN  /\ Len(cdf[p][s]) = NumChannels(p)
                /\ Len(row) = value_range + 1
                /\ row[1].num = 0
                /\ \A a \in 1..(value_range + 1) :
                       /\ row[a].den = NumTokens(p)
                       /\ 0 <= row[a].num /\ row[a].num <= row[a].den
                       /\ row[a].num =
                              Cardinality({t \in 1..NumTokens(p) : x[t][c] < a - 1})
                /\ \A a \in 1..value_range : row[a].num <= row[a + 1].num

\* a CDF with a proper fraction in it, and one whose channels differ
C5_Witness ==
    \E p \in procs :
        /\ pc[p] \in {"coding", "done"}
        /\ \/ \E s \in 1..Len(cdf[p]) : \E a \in 1..(value_range + 1) :
                  LET r == cdf[p][s][1][a] IN 0 < r.num /\ r.num < r.den
           \/ /\ NumChannels(p) > 1
              /\ \E s \in 1..Len(cdf[p]) : cdf[p][s][1] # cdf[p][s][2]

(* C6: a row whose values are all zero is reported with scale 1 and gives  *)
(* the centre symbol bins/2 - 1 in every channel.                          *)
C6_ZeroRowScaleOne ==
    \A p \in procs : pc[p] \notin {"start", "constructed"} =>
        LET e == enc[EncoderOf(p)]
        IN  \A ly \in 1..NumLayers(p) : \A t \in 1..NumTokens(p) :
                /\ IsZeroRow(kv[p][ly][1][t]) =>
                       /\ e.max_tensors_key[ly][t] = 1
                       /\ \A c \in 1..NumChannels(p) :
                              e.quantized_key[ly][t][c] = KeyBins(config[p], ly - 1) \div 2 - 1
                /\ IsZeroRow(kv[p][ly][2][t]) =>
                       /\ e.max_tensors_value[ly][t] = 1
                       /\ \A c \in 1..NumChannels(p) :
                              e.quantized_value[ly][t][c] = ValueBins(config[p], ly - 1) \div 2 - 1

(* C7: a call whose configuration holds an invalid bin count never calls   *)
(* the coder and never returns an output.                                  *)
C7_InvalidBinsRejected ==
    \A p \in procs : ~ValidConfig(config[p]) =>
        /\ bytestreams[p] = <<>>
        /\ ~Returned(p)
        /\ ~output[p].returned

(* C9: whatever the interleaving, a finished call holds exactly the output *)
(* it gives when it runs alone, and calls with equal inputs hold equal     *)
(* outputs.                                                                *)
C9_CallsAreIsolated ==
    /\ \A p \in procs : pc[p] \in {"done", "raised"} =>
           output[p] = EncodeAlone(kv[p], config[p])
    /\ \A p, q \in procs :
           (pc[p] = "done" /\ pc[q] = "done" /\ kv[p] = kv[q] /\ config[p] = config[q])
               => output[p] = output[q]

\* two calls on different inputs, both finished, with different outputs
C9_Witness ==
    /\ Cardinality(procs) > 1
    /\ \A p \in procs : Returned(p)
    /\ \E p, q \in procs :
           /\ kv[p] # kv[q]
           /\ output[p].bytestream # output[q].bytestream
           /\ output[p].max_tensors_key # output[q].max_tensors_key

(* C10: the integer CDF stored in the output equals, entry for entry, the  *)
(* integer CDF the coder was driven with.                                  *)
C10_StoredCdfIsCoderCdf ==
    \A p \in procs : Returned(p) =>
        /\ Len(output[p].cdf) = Len(cdf_int[p])
        /\ \A s \in 1..Len(cdf_int[p]) : \A c \in 1..Len(cdf_int[p][s]) :
               \A a \in 1..(value_range + 1) :
                   output[p].cdf[s][c][a] = cdf_int[p][s][c][a]

\* a returned output whose CDF holds a value between the ramp and the top
C10_Witness ==
    \E p \in procs :
        /\ Returned(p)
        /\ \E s \in 1..Len(cdf_int[p]) : \E c \in 1..Len(cdf_int[p][s]) :
               \E a \in 1..(value_range + 1) :
                   LET v == U16(output[p].cdf[s][c][a])
                   IN  v > value_range /\ v < Pow2(PRECISION) - (value_range + 1)

====
